---- MODULE Spec2Model ----
(***************************************************************************)
(* kaskade services: ConsumerService.consume (retry-bounded, filtered,     *)
(* paginated polling) and TopicService.all (topic / partition / group      *)
(* snapshot), modelled from src/kaskade/services.py.                       *)
(*                                                                         *)
(* Text is a sequence of code points, bytes a sequence of byte values.     *)
(* A Python Optional is <<>> for None and <<v>> for a value v.             *)
(***************************************************************************)
EXTENDS Integers, Sequences, FiniteSets, TLC

VARIABLES
    svc,        \* ConsumerService fields: page_size, max_retries
    closed,     \* ConsumerService.close() has been called on the consumer
    source,     \* the messages the subscribed topic can still deliver
    live,       \* how many messages it delivers before it falls silent
    cpc,        \* position of the consume coroutine
    args,       \* keyword arguments the caller passes to consume
    records,    \* consume: the accumulator
    retries,    \* consume: consecutive empty polls
    polled,     \* results of the polls of this call, oldest first
    result,     \* <<>> until consume returns, then <<page>>
    failure,    \* the exception consume raised, "none" until then
    earlier,    \* the calls of consume that have ended: their pages, what
                \* they left behind, how many messages they were delivered
    position,   \* how many messages the consumer has handed out
    executor,   \* per consume coroutine, its calls the executor is running
    other,      \* a second consume coroutine on the same ConsumerService
    cluster,    \* what the broker answers: topics, watermarks, groups, committed offsets
    apc,        \* position of the TopicService.all coroutine
    tmeta,      \* all: the sorted topics metadata
    gmeta,      \* all: the described consumer groups
    topics,     \* all: the dict of Topic being built, in insertion order
    idx,        \* all: loop positions (topic, partition, group, group topic,
                \* committed partition) and the group consumer's handle
    group,      \* _map_groups_into_topics: the Group being built
    cpm,        \* _map_groups_into_topics: committed_partitions_metadata
    handles,    \* every Consumer the snapshot created
    faults,     \* how many broker calls have failed so far
    degraded,   \* the watermark lookups that raised KafkaException
    aresult,    \* <<>> until all returns, then <<topics>>
    afailure,   \* the exception all raised, "none" until then
    raised,     \* the broker calls of this snapshot that raised
    calls,      \* the broker calls of this snapshot and how each was executed
    prev        \* <<>>, or what the previous call of all returned

cvars == <<svc, closed, source, live, cpc, args, records, retries, polled, result, failure,
           earlier, position, executor, other>>

avars == <<cluster, apc, tmeta, gmeta, topics, idx, group, cpm, handles, faults,
           degraded, aresult, afailure, raised, calls, prev>>

vars == <<cvars, avars>>

----------------------------------------------------------------------------
(* Bounds of the consumer model *)

MaxPageSize == 3

MaxRetries == 2

MaxMsgs == 3

\* How many calls of consume are made in a row on one ConsumerService.
MaxCalls == 2

(* Bounds of the model of two overlapping consume calls *)

OverlapPageSize == 2

OverlapRetries == 1

OverlapMsgs == 3

(* Bound of the snapshot model: broker calls that may fail in one snapshot *)

MaxFaults == 1

----------------------------------------------------------------------------
(* Values *)

None == <<>>

Some(v) == <<v>>

\* The texts "a", "b", "ab" and "ba" as code points.
TxtA == <<97>>

TxtB == <<98>>

TxtAB == <<97, 98>>

TxtBA == <<98, 97>>

\* Messages a poll can hand back (confluent_kafka Message): partition, key and
\* value bytes, headers() (None or a list of (key, bytes)), timestamp() as
\* (type, milliseconds) and error().
MsgPlain0 ==
    [partition |-> 0, key |-> TxtA, value |-> TxtAB, headers |-> None,
     ts_type |-> 0, ts |-> -1, err |-> FALSE]

MsgPlain1 ==
    [partition |-> 1, key |-> TxtB, value |-> TxtB,
     headers |-> Some(<< <<TxtA, TxtA>> >>),
     ts_type |-> 1, ts |-> 1500, err |-> FALSE]

MsgRich1 ==
    [partition |-> 1, key |-> TxtAB, value |-> TxtA,
     headers |-> Some(<< <<TxtA, TxtB>>, <<TxtB, TxtBA>> >>),
     ts_type |-> 1, ts |-> 2999, err |-> FALSE]

MsgError ==
    [partition |-> 0, key |-> <<>>, value |-> <<>>, headers |-> None,
     ts_type |-> 0, ts |-> -1, err |-> TRUE]

Templates == {MsgPlain0, MsgPlain1, MsgRich1, MsgError}

\* Filter arguments of a consume call.
NoFilter ==
    [partition_filter |-> None, key_filter |-> None,
     value_filter |-> None, header_filter |-> None]

FilterChoices ==
    { NoFilter,
      [NoFilter EXCEPT !.partition_filter = Some(1)],
      [NoFilter EXCEPT !.partition_filter = Some(0), !.key_filter = Some(<<>>)],
      [NoFilter EXCEPT !.key_filter = Some(TxtA)],
      [NoFilter EXCEPT !.value_filter = Some(TxtB)],
      [NoFilter EXCEPT !.header_filter = Some(TxtA)],
      [NoFilter EXCEPT !.partition_filter = Some(1), !.key_filter = Some(TxtB),
                       !.value_filter = Some(TxtB), !.header_filter = Some(TxtA)] }

----------------------------------------------------------------------------
(* Pure helpers of consume *)

\* Python's `sub in text` on strings.
IsSubstring(sub, text) ==
    \E i \in 0..(Len(text) - Len(sub)) : SubSeq(text, i + 1, i + Len(sub)) = sub

\* Python truthiness of an Optional[str]: None and "" are falsy.
Truthy(opt) == opt # None /\ opt[1] # <<>>

\* Header.value_str(), Record.key_str(), Record.value_str(): the bytes decoded
\* to text (ASCII range: one code point per byte).
DecodeText(bytes) == [i \in 1..Len(bytes) |-> bytes[i] % 128]

value_str(header) == DecodeText(header.value)

\* _match_header
_match_header(header_filter, headers) ==
    \E i \in 1..Len(headers) : IsSubstring(header_filter, value_str(headers[i]))

\* Mutant of HasError: the error of a polled message is never looked at.
HasErrorIgnored(m) == FALSE

\* record_metadata.error() is truthy
HasError(m) == m.err

\* datetime.fromtimestamp(timestamp / 1000).strftime("%Y-%m-%d %H:%M:%S"): the
\* timestamp at a resolution of one second; "" when none is available.
MakeDate(ts_type, ts) == IF ts_type > 0 THEN <<ts \div 1000>> ELSE <<>>

\* The header list of the Record: [] when headers() is None.
MakeHeaders(m) ==
    IF m.headers # None
    THEN [i \in 1..Len(m.headers[1]) |->
            [key |-> m.headers[1][i][1], value |-> m.headers[1][i][2]]]
    ELSE <<>>

\* Mutant of RecordRaises: headers() is iterated without the None test.
RecordRaisesOnNoHeaders(m) == m.headers = None

\* Building the Record raises (it never does: a missing timestamp gives an
\* empty date and missing headers an empty list).
RecordRaises(m) == FALSE

\* Record(...) built from a polled message; offset is the message's position.
MakeRecord(m, offset) ==
    [partition |-> m.partition, offset |-> offset, key |-> m.key, value |-> m.value,
     date |-> MakeDate(m.ts_type, m.ts), headers |-> MakeHeaders(m)]

\* The four filter tests, in the order of the code; TRUE when the record is kept.
PassesFilters(record, f) ==
    IF f.partition_filter # None /\ record.partition # f.partition_filter[1] THEN FALSE
    ELSE IF Truthy(f.key_filter)
            /\ ~IsSubstring(f.key_filter[1], DecodeText(record.key)) THEN FALSE
    ELSE IF Truthy(f.value_filter)
            /\ ~IsSubstring(f.value_filter[1], DecodeText(record.value)) THEN FALSE
    ELSE IF Truthy(f.header_filter)
            /\ ~_match_header(f.header_filter[1], record.headers) THEN FALSE
    ELSE TRUE

\* Mutant of LoopCond: off by one.
LoopCondInclusive(recs, page_size) == Len(recs) <= page_size

\* while len(records) < self.page_size
LoopCond(recs, page_size) == Len(recs) < page_size

\* Mutant of RetriesExhausted: the budget is looked at only after a poll
\* has come back empty.
RetriesExhaustedAfterPoll(n, max_retries) == n >= 1 /\ n >= max_retries

\* Mutant of RetriesExhausted: one poll too many.
RetriesExhaustedStrict(n, max_retries) == n > max_retries

\* if retries >= self.max_retries: break
RetriesExhausted(n, max_retries) == n >= max_retries

\* retries after an empty poll
RetriesAfterEmpty(n) == n + 1

\* Mutant of RetriesAfterRecord: a record that is filtered out counts as an
\* empty poll.
RetriesAfterRecordCountsSkipped(n, kept) == IF kept THEN 0 ELSE n + 1

\* Mutant of RetriesAfterRecord: the counter is not reset by a record.
RetriesAfterRecordKept(n, kept) == n

\* retries after a record was received (before the filters are applied)
RetriesAfterRecord(n, kept) == 0

\* Mutant of EmptyRecords: the accumulator of the previous call is kept.
EmptyRecordsCarriedOver(old) == old

\* records = []
EmptyRecords(old) == <<>>

\* Number of messages delivered in this call so far.
Delivered(ps) == Cardinality({i \in 1..Len(ps) : ps[i] # None})

----------------------------------------------------------------------------
(* ConsumerService *)

\* Nothing was handed to the executor.
NoWork == [c \in 1..2 |-> 0]

\* _make_it_async: run_in_executor hands the call to the executor ...
Submit(ex, c) == [ex EXCEPT ![c] = @ + 1]

\* ... and the await resumes the coroutine with its result.
Resume(ex, c) == [ex EXCEPT ![c] = @ - 1]

\* Mutant of AdvancePosition: poll hands out a message and leaves it in place.
AdvancePositionStuck(p) == p

\* consumer.poll returned a message: the consumer is past it.
AdvancePosition(p) == p + 1

\* No second consume coroutine was started.
NoOther == [pc |-> "idle", records |-> <<>>, retries |-> 0, polled |-> <<>>,
            result |-> None, failure |-> "none"]

\* No call of consume has ended yet.
NoEarlier == [pages |-> <<>>, dropped |-> <<>>, delivered |-> 0, ended |-> 0]

ConsumeInit ==
    /\ \/ /\ svc \in [page_size : 0..MaxPageSize, max_retries : (-1)..MaxRetries]
          /\ args \in FilterChoices
          /\ source = Templates
          /\ live = MaxMsgs
       \/ /\ svc = [page_size |-> 5, max_retries |-> 3]
          /\ args = [NoFilter EXCEPT !.partition_filter = Some(1)]
          /\ source = {MsgPlain0, MsgPlain1}
          /\ live = 5
    /\ closed = FALSE
    /\ cpc = "idle"
    /\ records = <<>>
    /\ retries = 0
    /\ polled = <<>>
    /\ result = None
    /\ failure = "none"
    /\ earlier = NoEarlier
    /\ position = 0
    /\ executor = NoWork
    /\ other = NoOther

\* ConsumerService.close
Close ==
    /\ cpc = "idle"
    /\ ~closed
    /\ closed' = TRUE
    /\ UNCHANGED <<avars, svc, source, live, cpc, args, records, retries, polled, result, failure, earlier, position, executor, other>>

\* consume(...) is called: records = [], retries = 0
ConsumeCall ==
    /\ cpc = "idle"
    /\ records' = EmptyRecords(records)
    /\ retries' = 0
    /\ polled' = <<>>
    /\ cpc' = "loop"
    /\ UNCHANGED <<avars, svc, closed, source, live, args, result, failure, earlier, position, executor, other>>

\* Loop head, the page is not full and retries are left: the poll is issued.
IssuePoll ==
    /\ cpc = "loop"
    /\ LoopCond(records, svc.page_size)
    /\ ~RetriesExhausted(retries, svc.max_retries)
    /\ cpc' = "poll"
    /\ executor' = Submit(executor, 1)
    /\ UNCHANGED <<avars, svc, closed, source, live, args, records, retries, polled, result, failure, earlier, position, other>>

\* Loop head, the page is full or the retries are used up: return records.
ReturnPage ==
    /\ cpc = "loop"
    /\ \/ ~LoopCond(records, svc.page_size)
       \/ /\ LoopCond(records, svc.page_size)
          /\ RetriesExhausted(retries, svc.max_retries)
    /\ result' = Some(records)
    /\ cpc' = "returned"
    /\ UNCHANGED <<avars, svc, closed, source, live, args, records, retries, polled, failure, earlier, position, executor, other>>

\* The bridged poll raises (the consumer was closed): _make_it_async re-raises
\* in consume, which does not catch it.
PollRaises ==
    /\ cpc = "poll"
    /\ closed
    /\ failure' = "RuntimeError"
    /\ cpc' = "failed"
    /\ executor[1] > 0
    /\ executor' = Resume(executor, 1)
    /\ UNCHANGED <<avars, svc, closed, source, live, args, records, retries, polled, result, earlier, position, other>>

\* poll returned None (nothing arrived within the timeout)
PollNone ==
    /\ cpc = "poll"
    /\ ~closed
    /\ polled' = Append(polled, None)
    /\ retries' = RetriesAfterEmpty(retries)
    /\ cpc' = "loop"
    /\ executor[1] > 0
    /\ executor' = Resume(executor, 1)
    /\ UNCHANGED <<avars, svc, closed, source, live, args, records, result, failure, earlier, position, other>>

\* poll returned a message whose error() is set: raise KafkaException
PollError ==
    /\ cpc = "poll"
    /\ ~closed
    /\ live > 0
    /\ \E m \in source :
        /\ HasError(m)
        /\ polled' = Append(polled, Some(m))
    /\ live' = live - 1
    /\ failure' = "KafkaException"
    /\ cpc' = "failed"
    /\ executor[1] > 0
    /\ executor' = Resume(executor, 1)
    /\ position' = AdvancePosition(position)
    /\ UNCHANGED <<avars, svc, closed, source, args, records, retries, result, earlier, other>>

\* poll returned a record: reset retries, build the Record, filter, append
PollRecord ==
    /\ cpc = "poll"
    /\ ~closed
    /\ live > 0
    /\ \E m \in source :
        /\ ~HasError(m)
        /\ polled' = Append(polled, Some(m))
        /\ IF RecordRaises(m)
           THEN /\ failure' = "TypeError"
                /\ cpc' = "failed"
                /\ retries' = RetriesAfterRecord(retries, FALSE)
                /\ UNCHANGED records
           ELSE LET record == MakeRecord(m, position)
                    kept == PassesFilters(record, args)
                IN  /\ retries' = RetriesAfterRecord(retries, kept)
                    /\ records' = IF kept THEN Append(records, record) ELSE records
                    /\ cpc' = "loop"
                    /\ UNCHANGED failure
    /\ live' = live - 1
    /\ executor[1] > 0
    /\ executor' = Resume(executor, 1)
    /\ position' = AdvancePosition(position)
    /\ UNCHANGED <<avars, svc, closed, source, args, result, earlier, other>>

ConsumeNext ==
    \/ Close
    \/ ConsumeCall
    \/ IssuePoll
    \/ ReturnPage
    \/ PollRaises
    \/ PollNone
    \/ PollError
    \/ PollRecord

\* The call has ended and consume(...) is called again on the same
\* ConsumerService: records = [], retries = 0. What the ended call returned,
\* or had accumulated when it failed, goes to the history.
ConsumeAgain ==
    /\ cpc \in {"returned", "failed"}
    /\ earlier.ended + 1 < MaxCalls
    /\ earlier' = [pages |-> IF cpc = "returned" THEN Append(earlier.pages, result[1])
                             ELSE earlier.pages,
                   dropped |-> IF cpc = "failed" THEN earlier.dropped \o records
                               ELSE earlier.dropped,
                   delivered |-> earlier.delivered + Delivered(polled),
                   ended |-> earlier.ended + 1]
    /\ records' = EmptyRecords(records)
    /\ retries' = 0
    /\ polled' = <<>>
    /\ result' = None
    /\ failure' = "none"
    /\ cpc' = "loop"
    /\ UNCHANGED <<avars, svc, closed, source, live, args, position, executor, other>>

CallsNext ==
    \/ ConsumeNext
    \/ ConsumeAgain

\* The variables of the first consume coroutine.
first == <<cpc, records, retries, polled, result, failure>>

\* While the first call is under way, consume(...) is called a second time
\* on the same ConsumerService: the new coroutine has its own records = []
\* and retries = 0.
OtherCall ==
    /\ cpc \in {"loop", "poll"}
    /\ other.pc = "idle"
    /\ other' = [other EXCEPT !.pc = "loop", !.records = EmptyRecords(@),
                              !.retries = 0, !.polled = <<>>]
    /\ UNCHANGED <<avars, first, svc, closed, source, live, args, earlier, position, executor>>

\* Second coroutine, loop head: the poll is issued.
OtherIssuePoll ==
    /\ other.pc = "loop"
    /\ LoopCond(other.records, svc.page_size)
    /\ ~RetriesExhausted(other.retries, svc.max_retries)
    /\ other' = [other EXCEPT !.pc = "poll"]
    /\ executor' = Submit(executor, 2)
    /\ UNCHANGED <<avars, first, svc, closed, source, live, args, earlier, position>>

\* Second coroutine, loop head: return records.
OtherReturnPage ==
    /\ other.pc = "loop"
    /\ \/ ~LoopCond(other.records, svc.page_size)
       \/ /\ LoopCond(other.records, svc.page_size)
          /\ RetriesExhausted(other.retries, svc.max_retries)
    /\ other' = [other EXCEPT !.pc = "returned", !.result = Some(other.records)]
    /\ UNCHANGED <<avars, first, svc, closed, source, live, args, earlier, position, executor>>

\* Second coroutine: the bridged poll raises on the closed consumer.
OtherPollRaises ==
    /\ other.pc = "poll"
    /\ executor[2] > 0
    /\ closed
    /\ other' = [other EXCEPT !.pc = "failed", !.failure = "RuntimeError"]
    /\ executor' = Resume(executor, 2)
    /\ UNCHANGED <<avars, first, svc, closed, source, live, args, earlier, position>>

\* Second coroutine: poll returned None.
OtherPollNone ==
    /\ other.pc = "poll"
    /\ executor[2] > 0
    /\ ~closed
    /\ other' = [other EXCEPT !.pc = "loop", !.polled = Append(@, None),
                              !.retries = RetriesAfterEmpty(@)]
    /\ executor' = Resume(executor, 2)
    /\ UNCHANGED <<avars, first, svc, closed, source, live, args, earlier, position>>

\* Second coroutine: poll returned a message whose error() is set.
OtherPollError ==
    /\ other.pc = "poll"
    /\ executor[2] > 0
    /\ ~closed
    /\ live > 0
    /\ \E m \in source :
        /\ HasError(m)
        /\ other' = [other EXCEPT !.pc = "failed", !.polled = Append(@, Some(m)),
                                  !.failure = "KafkaException"]
    /\ live' = live - 1
    /\ position' = AdvancePosition(position)
    /\ executor' = Resume(executor, 2)
    /\ UNCHANGED <<avars, first, svc, closed, source, args, earlier>>

\* Second coroutine: poll returned a record.
OtherPollRecord ==
    /\ other.pc = "poll"
    /\ executor[2] > 0
    /\ ~closed
    /\ live > 0
    /\ \E m \in source :
        /\ ~HasError(m)
        /\ IF RecordRaises(m)
           THEN other' = [other EXCEPT !.pc = "failed", !.polled = Append(@, Some(m)),
                                      !.failure = "TypeError",
                                      !.retries = RetriesAfterRecord(@, FALSE)]
           ELSE LET record == MakeRecord(m, position)
                    kept == PassesFilters(record, args)
                IN  other' = [other EXCEPT
                                !.pc = "loop",
                                !.polled = Append(@, Some(m)),
                                !.retries = RetriesAfterRecord(@, kept),
                                !.records = IF kept THEN Append(@, record) ELSE @]
    /\ live' = live - 1
    /\ position' = AdvancePosition(position)
    /\ executor' = Resume(executor, 2)
    /\ UNCHANGED <<avars, first, svc, closed, source, args, earlier>>

OverlapNext ==
    \/ ConsumeNext
    \/ OtherCall
    \/ OtherIssuePoll
    \/ OtherReturnPage
    \/ OtherPollRaises
    \/ OtherPollNone
    \/ OtherPollError
    \/ OtherPollRecord

\* The steps of a consume call that is under way: the event loop runs the
\* coroutine, and a poll in the executor comes back within its timeout.
ConsumeStep ==
    \/ IssuePoll
    \/ ReturnPage
    \/ PollRaises
    \/ PollNone
    \/ PollError
    \/ PollRecord

----------------------------------------------------------------------------
(* The broker as TopicService sees it *)

\* confluent_kafka.OFFSET_INVALID: no committed offset
OFFSET_INVALID == -1001

\* Topic names "O" (two partitions) and "a" (one partition), as code points.
TopicO == <<79>>

TopicA == <<97>>

TopicNames == {TopicO, TopicA}

NumPartitions(t) == IF t = TopicO THEN 2 ELSE 1

\* TopicMetadata: the name and the partition ids.
TopicMeta(t) == [topic |-> t, partitions |-> [i \in 1..NumPartitions(t) |-> i - 1]]

\* The orders in which list_topics().topics can hold the topics.
BrokerTopicLists ==
    {s \in UNION {[1..n -> TopicNames] : n \in 0..Cardinality(TopicNames)} :
        \A i, j \in DOMAIN s : i # j => s[i] # s[j]}

TopicTPs(t) == [i \in 1..NumPartitions(t) |-> <<t, i - 1>>]

RECURSIVE AllTPs(_)
AllTPs(names) ==
    IF names = <<>> THEN <<>> ELSE TopicTPs(Head(names)) \o AllTPs(Tail(names))

TPSet(names) == {AllTPs(names)[i] : i \in 1..Len(AllTPs(names))}

\* Low/high watermarks per partition id, as the broker reports them (low <= high).
WatermarkReplies ==
    {[p \in 0..1 |-> IF p = 0 THEN w ELSE <<0, 5>>] : w \in {<<0, 10>>, <<4, 9>>}}

GroupLists == {<<>>, <<"g1">>, <<"g1", "g2">>}

\* Assignments of member m1: none, every partition, the first topic's
\* partitions, the last partition only.
AssignmentChoices(names) ==
    IF names = <<>> THEN {<<>>}
    ELSE {<<>>, AllTPs(names), TopicTPs(names[1]),
          <<AllTPs(names)[Len(AllTPs(names))]>>}

\* ConsumerGroupDescription: group_id and members (member_id, assignment).
GroupMeta(g, a1, names) ==
    [group_id |-> g,
     members |-> IF g = "g1"
                 THEN <<[member_id |-> "m1", assignment |-> a1],
                        [member_id |-> "m0", assignment |-> <<>>]>>
                 ELSE <<[member_id |-> "m2", assignment |-> AllTPs(names)]>>]

\* A cluster: c1 and c2 are the partitions groups g1 and g2 have committed.
MakeCluster(names, w, gl, c1, c2, a1) ==
    [topics |-> [i \in 1..Len(names) |-> TopicMeta(names[i])],
     wm |-> [tp \in TPSet(names) |-> w[tp[2]]],
     groups |-> [i \in 1..Len(gl) |-> GroupMeta(gl[i], a1, names)],
     committed |-> [g \in {"g1", "g2"} |->
                      [tp \in TPSet(names) |->
                          IF tp \in (IF g = "g1" THEN c1 ELSE c2)
                          THEN 7 ELSE OFFSET_INVALID]]]

Clusters ==
    UNION { UNION { UNION {
        {MakeCluster(names, w, gl, c1, c2, a1) :
            c1 \in IF \E i \in 1..Len(gl) : gl[i] = "g1"
                   THEN SUBSET TPSet(names) ELSE {{}},
            c2 \in IF \E i \in 1..Len(gl) : gl[i] = "g2"
                   THEN {{}, TPSet(names)} ELSE {{}},
            a1 \in IF \E i \in 1..Len(gl) : gl[i] = "g1"
                   THEN AssignmentChoices(names) ELSE {<<>>}}
        : gl \in GroupLists} : w \in WatermarkReplies} : names \in BrokerTopicLists}

----------------------------------------------------------------------------
(* Pure helpers of TopicService *)

\* str.lower() on code points
Lower(name) ==
    [i \in 1..Len(name) |-> IF name[i] \in 65..90 THEN name[i] + 32 ELSE name[i]]

\* Python's < on str
StrLess(x, y) ==
    \E k \in 1..(Len(x) + 1) :
        /\ \A i \in 1..(k - 1) : i <= Len(y) /\ x[i] = y[i]
        /\ \/ k = Len(x) + 1 /\ Len(y) >= k
           \/ k <= Len(x) /\ k <= Len(y) /\ x[k] < y[k]

\* Mutant of sort_by_topic_name: the name is compared as it is written.
sort_by_topic_name_cased(topic) == topic.topic

\* sort_by_topic_name
sort_by_topic_name(topic) == Lower(topic.topic)

\* One step of sorted(): e goes behind every element whose key is not greater.
InsertSorted(sorted, e) ==
    LET n == Cardinality({i \in 1..Len(sorted) :
                 ~StrLess(sort_by_topic_name(e), sort_by_topic_name(sorted[i]))})
    IN  SubSeq(sorted, 1, n) \o <<e>> \o SubSeq(sorted, n + 1, Len(sorted))

\* sorted(list, key=sort_by_topic_name): stable, ascending
RECURSIVE SortedTopics(_)
SortedTopics(list) ==
    IF list = <<>> THEN <<>>
    ELSE InsertSorted(SortedTopics(SubSeq(list, 1, Len(list) - 1)), list[Len(list)])

\* Topic(name=...)
NewTopic(name) == [name |-> name, partitions |-> <<>>, groups |-> <<>>]

\* Mutant of MakePartition: low and high exchanged.
MakePartitionSwapped(id, topic, low, high) ==
    [id |-> id, topic |-> topic, low |-> high, high |-> low]

\* Partition(id=..., topic=..., high=..., low=...)
MakePartition(id, topic, low, high) ==
    [id |-> id, topic |-> topic, low |-> low, high |-> high]

\* Group(id=...)
NewGroup(gid) == [id |-> gid, partitions |-> <<>>, members |-> <<>>]

NoGroup == NewGroup("")

\* Mutant of IsInvalidOffset: the sentinel is not recognised.
IsInvalidOffsetNever(offset) == FALSE

\* group_partition_metadata.offset == OFFSET_INVALID
IsInvalidOffset(offset) == offset = OFFSET_INVALID

\* GroupPartition(id=..., topic=..., offset=..., group=..., high=..., low=...)
MakeGroupPartition(tp, gid, low, high) ==
    [id |-> tp.partition, topic |-> tp.topic, offset |-> tp.offset, group |-> gid,
     low |-> low, high |-> high]

\* Mutant of ShouldAttach: the group is attached to every topic.
ShouldAttachAlways(g) == TRUE

\* if len(group.partitions) > 0
ShouldAttach(g) == Len(g.partitions) > 0

\* Mutant of MemberPartitions: the topic of the assignment is not compared.
RECURSIVE MemberPartitionsAnyTopic(_, _)
MemberPartitionsAnyTopic(assignment, name) ==
    IF assignment = <<>> THEN <<>>
    ELSE <<Head(assignment)[2]>> \o MemberPartitionsAnyTopic(Tail(assignment), name)

\* member_partitions: the partitions of the member's assignment that are of
\* the topic, in the assignment's order
RECURSIVE MemberPartitions(_, _)
MemberPartitions(assignment, name) ==
    IF assignment = <<>> THEN <<>>
    ELSE (IF name = Head(assignment)[1] THEN <<Head(assignment)[2]>> ELSE <<>>)
         \o MemberPartitions(Tail(assignment), name)

\* The GroupMembers of a group for one topic: those with a partition of it.
RECURSIVE MembersFor(_, _, _)
MembersFor(members, gid, name) ==
    IF members = <<>> THEN <<>>
    ELSE LET mp == MemberPartitions(Head(members).assignment, name)
         IN  (IF Len(mp) > 0
              THEN <<[id |-> Head(members).member_id, group |-> gid, assignment |-> mp]>>
              ELSE <<>>)
             \o MembersFor(Tail(members), gid, name)

\* A Consumer handle: the group.id it was opened with (None: a fresh
\* kaskade-<uuid>), the lookups made on it, whether it was closed.
NewHandle(gid) == [group_id |-> gid, lookups |-> <<>>, closed |-> FALSE]

\* A lookup (committed or get_watermark_offsets) is made on the handle.
UseHandle(hs, h, op) == [hs EXCEPT ![h].lookups = Append(@, op)]

\* How a broker call is executed: _make_it_async hands it to the executor of
\* the running loop, a plain call runs it in the coroutine itself.
Bridged(op) == <<op, "bridge">>

Direct(op) == <<op, "direct">>

\* Mutant of AllCatches: all() swallows a KafkaException of the listing.
AllCatchesKafka(exc) == exc = "KafkaException"

\* all() has no try around its calls: no exception is caught there.
AllCatches(exc) == FALSE

\* Mutant of LookupCatches: the watermark lookup has no except clause.
LookupCatchesNothing(exc) == FALSE

\* except KafkaException around get_watermark_offsets
LookupCatches(exc) == exc = "KafkaException"

\* Mutant of FreshTopics: the dict of the previous call is filled again.
FreshTopicsStale(old) == old

\* _map_topics: topics = {}
FreshTopics(old) == <<>>

----------------------------------------------------------------------------
(* TopicService.all *)

StartIdx == [ti |-> 1, pi |-> 1, gi |-> 1, gti |-> 1, ci |-> 1, gh |-> 0]

AllInit ==
    /\ cluster \in Clusters
    /\ apc = "idle"
    /\ tmeta = <<>>
    /\ gmeta = <<>>
    /\ topics = <<>>
    /\ idx = StartIdx
    /\ group = NoGroup
    /\ cpm = <<>>
    /\ handles = <<>>
    /\ faults = 0
    /\ degraded = {}
    /\ aresult = None
    /\ afailure = "none"
    /\ raised = {}
    /\ calls = {}
    /\ prev = None

\* No snapshot is taken: the state of AllInit on a cluster without topics.
AllIdle ==
    /\ cluster = MakeCluster(<<>>, CHOOSE w \in WatermarkReplies : TRUE, <<>>, {}, {}, <<>>)
    /\ apc = "idle"
    /\ tmeta = <<>>
    /\ gmeta = <<>>
    /\ topics = <<>>
    /\ idx = StartIdx
    /\ group = NoGroup
    /\ cpm = <<>>
    /\ handles = <<>>
    /\ faults = 0
    /\ degraded = {}
    /\ aresult = None
    /\ afailure = "none"
    /\ raised = {}
    /\ calls = {}
    /\ prev = None

\* No consume call is made: a ConsumerService with the default page_size and
\* max_retries on a silent topic.
ConsumeIdle ==
    /\ svc = [page_size |-> 25, max_retries |-> 5]
    /\ args = NoFilter
    /\ source = {}
    /\ live = 0
    /\ closed = FALSE
    /\ cpc = "idle"
    /\ records = <<>>
    /\ retries = 0
    /\ polled = <<>>
    /\ result = None
    /\ failure = "none"
    /\ earlier = NoEarlier
    /\ position = 0
    /\ executor = NoWork
    /\ other = NoOther

\* all() is called: _list_topics_metadata() returns the sorted topics.
ListTopics ==
    /\ apc = "idle"
    /\ tmeta' = SortedTopics(cluster.topics)
    /\ topics' = FreshTopics(topics)
    /\ idx' = StartIdx
    /\ apc' = "topic_loop"
    /\ calls' = calls \cup {Direct("list_topics")}
    /\ UNCHANGED <<cvars, cluster, gmeta, group, cpm, handles, faults, degraded, aresult, afailure, raised, prev>>

\* all() is called: list_topics raises.
ListTopicsFails ==
    /\ apc = "idle"
    /\ faults < MaxFaults
    /\ faults' = faults + 1
    /\ raised' = raised \cup {"list_topics"}
    /\ calls' = calls \cup {Direct("list_topics")}
    /\ IF AllCatches("KafkaException")
       THEN /\ aresult' = Some(<<>>)
            /\ apc' = "returned"
            /\ UNCHANGED afailure
       ELSE /\ afailure' = "KafkaException"
            /\ apc' = "failed"
            /\ UNCHANGED aresult
    /\ UNCHANGED <<cvars, cluster, tmeta, gmeta, topics, idx, group, cpm, handles, degraded, prev>>

\* _map_topics: the next topic; its Topic enters the dict.
TopicBegin ==
    /\ apc = "topic_loop"
    /\ idx.ti <= Len(tmeta)
    /\ topics' = Append(topics, NewTopic(tmeta[idx.ti].topic))
    /\ idx' = [idx EXCEPT !.pi = 1]
    /\ apc' = "part_loop"
    /\ UNCHANGED <<cvars, cluster, tmeta, gmeta, group, cpm, handles, faults, degraded, aresult, afailure, raised, calls, prev>>

\* _map_topics returns: all() goes on to the groups.
TopicsDone ==
    /\ apc = "topic_loop"
    /\ idx.ti > Len(tmeta)
    /\ apc' = "list_groups"
    /\ UNCHANGED <<cvars, cluster, tmeta, gmeta, topics, idx, group, cpm, handles, faults, degraded, aresult, afailure, raised, calls, prev>>

\* _get_watermarks: a Consumer with a fresh group id is created and the
\* lookup is issued.
OpenWatermarkConsumer ==
    /\ apc = "part_loop"
    /\ idx.pi <= Len(tmeta[idx.ti].partitions)
    /\ handles' = Append(handles, NewHandle(None))
    /\ apc' = "wm_wait"
    /\ calls' = calls \cup {Bridged("get_watermark_offsets")}
    /\ UNCHANGED <<cvars, cluster, tmeta, gmeta, topics, idx, group, cpm, faults, degraded, aresult, afailure, raised, prev>>

\* _map_topics: the partitions of the topic are done.
PartitionsDone ==
    /\ apc = "part_loop"
    /\ idx.pi > Len(tmeta[idx.ti].partitions)
    /\ idx' = [idx EXCEPT !.ti = @ + 1]
    /\ apc' = "topic_loop"
    /\ UNCHANGED <<cvars, cluster, tmeta, gmeta, topics, group, cpm, handles, faults, degraded, aresult, afailure, raised, calls, prev>>

\* _get_watermarks returns (low, high) of the lookup, or (0, 0) when it raised
\* KafkaException; the Partition is appended to the topic.
GetWatermarks ==
    /\ apc = "wm_wait"
    /\ handles' = UseHandle(handles, Len(handles), "get_watermark_offsets")
    /\ LET name == tmeta[idx.ti].topic
           pid == tmeta[idx.ti].partitions[idx.pi]
       IN  \E ok \in BOOLEAN :
            /\ ~ok => faults < MaxFaults
            /\ faults' = IF ok THEN faults ELSE faults + 1
            /\ raised' = IF ok THEN raised ELSE raised \cup {"get_watermark_offsets"}
            /\ degraded' = IF ok THEN degraded
                           ELSE degraded \cup {<<"topic", name, pid, "">>}
            /\ IF ok \/ LookupCatches("KafkaException")
               THEN LET pair == IF ok THEN cluster.wm[<<name, pid>>] ELSE <<0, 0>>
                    IN  /\ topics' = [topics EXCEPT ![idx.ti].partitions =
                                Append(@, MakePartition(pid, name, pair[1], pair[2]))]
                        /\ idx' = [idx EXCEPT !.pi = @ + 1]
                        /\ apc' = "part_loop"
                        /\ UNCHANGED afailure
               ELSE /\ afailure' = "KafkaException"
                    /\ apc' = "failed"
                    /\ UNCHANGED <<topics, idx>>
    /\ UNCHANGED <<cvars, cluster, tmeta, gmeta, group, cpm, aresult, calls, prev>>

\* _list_groups_metadata(): the groups are listed and described.
ListGroups ==
    /\ apc = "list_groups"
    /\ gmeta' = cluster.groups
    /\ idx' = [idx EXCEPT !.gi = 1]
    /\ apc' = "group_loop"
    /\ calls' = calls \cup {Direct("list_groups")}
    /\ UNCHANGED <<cvars, cluster, tmeta, topics, group, cpm, handles, faults, degraded, aresult, afailure, raised, prev>>

\* _list_groups_metadata(): list_consumer_groups or a describe future raises.
ListGroupsFails ==
    /\ apc = "list_groups"
    /\ faults < MaxFaults
    /\ faults' = faults + 1
    /\ raised' = raised \cup {"list_groups"}
    /\ calls' = calls \cup {Direct("list_groups")}
    /\ IF AllCatches("KafkaException")
       THEN /\ aresult' = Some(topics)
            /\ apc' = "returned"
            /\ UNCHANGED afailure
       ELSE /\ afailure' = "KafkaException"
            /\ apc' = "failed"
            /\ UNCHANGED aresult
    /\ UNCHANGED <<cvars, cluster, tmeta, gmeta, topics, idx, group, cpm, handles, degraded, prev>>

\* _map_groups_into_topics: the next group; group_consumer is created with
\* the group's id.
GroupBegin ==
    /\ apc = "group_loop"
    /\ idx.gi <= Len(gmeta)
    /\ handles' = Append(handles, NewHandle(Some(gmeta[idx.gi].group_id)))
    /\ idx' = [idx EXCEPT !.gti = 1, !.gh = Len(handles) + 1]
    /\ apc' = "gtopic_loop"
    /\ UNCHANGED <<cvars, cluster, tmeta, gmeta, topics, group, cpm, faults, degraded, aresult, afailure, raised, calls, prev>>

\* _map_groups_into_topics returns and all() returns topics.
GroupsDone ==
    /\ apc = "group_loop"
    /\ idx.gi > Len(gmeta)
    /\ aresult' = Some(topics)
    /\ apc' = "returned"
    /\ UNCHANGED <<cvars, cluster, tmeta, gmeta, topics, idx, group, cpm, handles, faults, degraded, afailure, raised, calls, prev>>

\* The next topic for the group: a new Group, and committed() is issued for
\* the topic's partitions.
GroupTopicBegin ==
    /\ apc = "gtopic_loop"
    /\ idx.gti <= Len(topics)
    /\ group' = NewGroup(gmeta[idx.gi].group_id)
    /\ apc' = "committed_wait"
    /\ calls' = calls \cup {Bridged("committed")}
    /\ UNCHANGED <<cvars, cluster, tmeta, gmeta, topics, idx, cpm, handles, faults, degraded, aresult, afailure, raised, prev>>

\* The topics are done for the group.
GroupTopicsDone ==
    /\ apc = "gtopic_loop"
    /\ idx.gti > Len(topics)
    /\ idx' = [idx EXCEPT !.gi = @ + 1]
    /\ apc' = "group_loop"
    /\ UNCHANGED <<cvars, cluster, tmeta, gmeta, topics, group, cpm, handles, faults, degraded, aresult, afailure, raised, calls, prev>>

\* committed() returns the group's offsets of the topic's partitions.
Committed ==
    /\ apc = "committed_wait"
    /\ LET t == topics[idx.gti]
       IN  cpm' = [i \in 1..Len(t.partitions) |->
                    [topic |-> t.name, partition |-> t.partitions[i].id,
                     offset |-> cluster.committed[group.id][<<t.name, t.partitions[i].id>>]]]
    /\ handles' = UseHandle(handles, idx.gh, "committed")
    /\ idx' = [idx EXCEPT !.ci = 1]
    /\ apc' = "gpart_loop"
    /\ UNCHANGED <<cvars, cluster, tmeta, gmeta, topics, group, faults, degraded, aresult, afailure, raised, calls, prev>>

\* committed() raises KafkaException: nothing catches it.
CommittedFails ==
    /\ apc = "committed_wait"
    /\ faults < MaxFaults
    /\ faults' = faults + 1
    /\ handles' = UseHandle(handles, idx.gh, "committed")
    /\ raised' = raised \cup {"committed"}
    /\ afailure' = "KafkaException"
    /\ apc' = "failed"
    /\ UNCHANGED <<cvars, cluster, tmeta, gmeta, topics, idx, group, cpm, degraded, aresult, calls, prev>>

\* A partition without committed offset is skipped.
SkipInvalidOffset ==
    /\ apc = "gpart_loop"
    /\ idx.ci <= Len(cpm)
    /\ IsInvalidOffset(cpm[idx.ci].offset)
    /\ idx' = [idx EXCEPT !.ci = @ + 1]
    /\ UNCHANGED <<cvars, cluster, apc, tmeta, gmeta, topics, group, cpm, handles, faults, degraded, aresult, afailure, raised, calls, prev>>

\* A partition with a committed offset: its watermark lookup is issued on
\* group_consumer.
IssueGroupWatermark ==
    /\ apc = "gpart_loop"
    /\ idx.ci <= Len(cpm)
    /\ ~IsInvalidOffset(cpm[idx.ci].offset)
    /\ apc' = "gwm_wait"
    /\ calls' = calls \cup {Bridged("get_watermark_offsets")}
    /\ UNCHANGED <<cvars, cluster, tmeta, gmeta, topics, idx, group, cpm, handles, faults, degraded, aresult, afailure, raised, prev>>

\* The lookup returns (low, high), or raises KafkaException and (0, 0) stays;
\* the GroupPartition is appended to the group.
GroupWatermark ==
    /\ apc = "gwm_wait"
    /\ handles' = UseHandle(handles, idx.gh, "get_watermark_offsets")
    /\ LET tp == cpm[idx.ci]
       IN  \E ok \in BOOLEAN :
            /\ ~ok => faults < MaxFaults
            /\ faults' = IF ok THEN faults ELSE faults + 1
            /\ raised' = IF ok THEN raised ELSE raised \cup {"get_watermark_offsets"}
            /\ degraded' = IF ok THEN degraded
                           ELSE degraded \cup {<<"group", tp.topic, tp.partition, group.id>>}
            /\ IF ok \/ LookupCatches("KafkaException")
               THEN LET pair == IF ok THEN cluster.wm[<<tp.topic, tp.partition>>]
                                ELSE <<0, 0>>
                    IN  /\ group' = [group EXCEPT !.partitions =
                                Append(@, MakeGroupPartition(tp, group.id, pair[1], pair[2]))]
                        /\ idx' = [idx EXCEPT !.ci = @ + 1]
                        /\ apc' = "gpart_loop"
                        /\ UNCHANGED afailure
               ELSE /\ afailure' = "KafkaException"
                    /\ apc' = "failed"
                    /\ UNCHANGED <<group, idx>>
    /\ UNCHANGED <<cvars, cluster, tmeta, gmeta, topics, cpm, aresult, calls, prev>>

\* The committed partitions are done: a group with partitions gets its
\* members of this topic and is appended to topic.groups.
AttachGroup ==
    /\ apc = "gpart_loop"
    /\ idx.ci > Len(cpm)
    /\ topics' =
         IF ShouldAttach(group)
         THEN [topics EXCEPT ![idx.gti].groups =
                 Append(@, [group EXCEPT !.members =
                               MembersFor(gmeta[idx.gi].members, group.id,
                                          topics[idx.gti].name)])]
         ELSE topics
    /\ idx' = [idx EXCEPT !.gti = @ + 1]
    /\ apc' = "gtopic_loop"
    /\ UNCHANGED <<cvars, cluster, tmeta, gmeta, group, cpm, handles, faults, degraded, aresult, afailure, raised, calls, prev>>

AllNext ==
    \/ ListTopics
    \/ ListTopicsFails
    \/ TopicBegin
    \/ TopicsDone
    \/ OpenWatermarkConsumer
    \/ PartitionsDone
    \/ GetWatermarks
    \/ ListGroups
    \/ ListGroupsFails
    \/ GroupBegin
    \/ GroupsDone
    \/ GroupTopicBegin
    \/ GroupTopicsDone
    \/ Committed
    \/ CommittedFails
    \/ SkipInvalidOffset
    \/ IssueGroupWatermark
    \/ GroupWatermark
    \/ AttachGroup

\* all() has returned topics: the caller keeps the map and calls all() once
\* more on the same TopicService. The frame of the finished call is gone;
\* the dict it returned lives on with the caller.
AllAgain ==
    /\ apc = "returned"
    /\ prev = None
    /\ prev' = Some([topics |-> aresult[1], degraded |-> degraded])
    /\ apc' = "idle"
    /\ aresult' = None
    /\ tmeta' = <<>>
    /\ gmeta' = <<>>
    /\ idx' = StartIdx
    /\ group' = NoGroup
    /\ cpm' = <<>>
    /\ handles' = <<>>
    /\ faults' = 0
    /\ degraded' = {}
    /\ raised' = {}
    /\ calls' = {}
    /\ UNCHANGED <<cvars, cluster, topics, afailure>>

TwiceNext ==
    \/ AllNext
    \/ AllAgain

----------------------------------------------------------------------------
(* Specifications *)

\* The consumer alone: no snapshot is running.
Init == ConsumeInit /\ AllIdle

Spec == Init /\ [][ConsumeNext]_vars

\* The consumer alone, a call that is under way being carried on; the calls
\* are those without a key, value or header filter.
InitLive ==
    /\ Init
    /\ args.key_filter = None
    /\ args.value_filter = None
    /\ args.header_filter = None

SpecLive == InitLive /\ [][ConsumeNext]_vars /\ WF_vars(ConsumeStep)

\* The consumer alone, called up to MaxCalls times in a row, without a key,
\* value or header filter, on a source of MaxMsgs messages.
InitCalls == InitLive /\ live = MaxMsgs

SpecCalls == InitCalls /\ [][CallsNext]_vars

\* Two consume calls on one ConsumerService that overlap.
\* The source holds a message of partition 0, one of partition 1 and an error.
InitOverlap ==
    /\ svc \in [page_size : 0..OverlapPageSize, max_retries : (-1)..OverlapRetries]
    /\ args \in {NoFilter, [NoFilter EXCEPT !.partition_filter = Some(1)]}
    /\ source = {MsgPlain0, MsgPlain1, MsgError}
    /\ live = OverlapMsgs
    /\ closed = FALSE
    /\ cpc = "idle"
    /\ records = <<>>
    /\ retries = 0
    /\ polled = <<>>
    /\ result = None
    /\ failure = "none"
    /\ earlier = NoEarlier
    /\ position = 0
    /\ executor = NoWork
    /\ other = NoOther
    /\ AllIdle

SpecOverlap == InitOverlap /\ [][OverlapNext]_vars

\* The snapshot alone: no consume call is running.
InitAll == AllInit /\ ConsumeIdle

SpecAll == InitAll /\ [][AllNext]_vars

\* Two snapshots in a row of the same cluster. The clusters are those whose
\* partition 0 answers (4, 9) and whose member m1 is assigned every partition.
TwiceClusters ==
    {c \in Clusters :
        /\ \A tp \in DOMAIN c.wm : tp[2] = 0 => c.wm[tp] = <<4, 9>>
        /\ \A i \in 1..Len(c.groups) :
             c.groups[i].group_id = "g1" =>
                c.groups[i].members[1].assignment
                    = AllTPs([j \in 1..Len(c.topics) |-> c.topics[j].topic])}

InitTwice == InitAll /\ cluster \in TwiceClusters

SpecTwice == InitTwice /\ [][TwiceNext]_vars

----------------------------------------------------------------------------
(* Vocabulary of the consume claims *)

\* Positions of polled messages that carry a broker-reported error.
ErrAt(ps) == {i \in 1..Len(ps) : ps[i] # None /\ ps[i][1].err}

\* The last n polls all returned nothing.
TailEmpty(ps, n) ==
    \/ n <= 0
    \/ /\ Len(ps) >= n
       /\ \A i \in (Len(ps) - n + 1)..Len(ps) : ps[i] = None

\* A record satisfies every active filter (stated per filter, not in code order).
Keeps(record, f) ==
    /\ f.partition_filter = None \/ record.partition = f.partition_filter[1]
    /\ f.key_filter \in {None, Some(<<>>)}
          \/ IsSubstring(f.key_filter[1], record.key)
    /\ f.value_filter \in {None, Some(<<>>)}
          \/ IsSubstring(f.value_filter[1], record.value)
    /\ f.header_filter \in {None, Some(<<>>)}
          \/ \E i \in 1..Len(record.headers) :
                IsSubstring(f.header_filter[1], record.headers[i].value)

\* The records of the polled messages that satisfy the filters, in poll order.
RECURSIVE KeptOf(_, _)
KeptOf(ps, f) ==
    IF ps = <<>> THEN <<>>
    ELSE LET init == SubSeq(ps, 1, Len(ps) - 1)
             last == ps[Len(ps)]
         IN  IF last = None \/ last[1].err THEN KeptOf(init, f)
             ELSE LET r == MakeRecord(last[1], Delivered(init))
                  IN  IF Keeps(r, f) THEN Append(KeptOf(init, f), r)
                      ELSE KeptOf(init, f)

\* Partitions of the delivered messages, in poll order.
RECURSIVE PartitionsOf(_)
PartitionsOf(ps) ==
    IF ps = <<>> THEN <<>>
    ELSE LET init == SubSeq(ps, 1, Len(ps) - 1)
             last == ps[Len(ps)]
         IN  IF last = None THEN PartitionsOf(init)
             ELSE Append(PartitionsOf(init), last[1].partition)

----------------------------------------------------------------------------
(* Claims about ConsumerService.consume *)

\* C1: the accumulator never holds more than page_size records, and a
\* returned page has at most page_size records.
C1_PageBounded ==
    /\ Len(records) <= svc.page_size
    /\ result # None => Len(result[1]) <= svc.page_size

\* C1 witness: a full page of at least two records was returned.
C1_Witness ==
    /\ cpc = "returned"
    /\ svc.page_size >= 2
    /\ Len(result[1]) = svc.page_size

\* C2: once fewer than page_size polled records satisfy the filters and the
\* last max_retries polls returned nothing, consume polls no more and ends by
\* returning exactly the records kept so far, raising nothing.
C2_ShortPageReturned ==
    (/\ cpc # "idle"
     /\ Len(KeptOf(polled, args)) < svc.page_size
     /\ TailEmpty(polled, svc.max_retries))
    => /\ cpc \in {"loop", "returned"}
       /\ failure = "none"
       /\ records = KeptOf(polled, args)
       /\ cpc = "returned" => result = Some(KeptOf(polled, args))

\* C2 witness: a non-empty short page returned after max_retries >= 2 empty polls.
C2_Witness ==
    /\ cpc = "returned"
    /\ svc.max_retries >= 2
    /\ result[1] # <<>>
    /\ Len(result[1]) < svc.page_size
    /\ TailEmpty(polled, svc.max_retries)

\* The step in which a poll hands back a record that fails an active filter.
FilteredOutStep ==
    /\ cpc = "poll"
    /\ Len(polled') = Len(polled) + 1
    /\ polled'[Len(polled')] # None
    /\ ~polled'[Len(polled')][1].err
    /\ ~Keeps(MakeRecord(polled'[Len(polled')][1], Delivered(polled)), args)

\* C3: a polled record that fails any active filter is not appended and does
\* not increment the empty-poll counter: it sets the counter to zero, and every
\* record of the accumulator satisfies all active filters.
C3_FilteredRecordResets ==
    [][ /\ FilteredOutStep => (records' = records /\ retries' = 0 /\ cpc' = "loop")
        /\ \A i \in 1..Len(records') : Keeps(records'[i], args) ]_vars

\* C3 witness: after an empty poll a record was received and filtered out;
\* the counter is back to zero and the kept record is still the only one.
C3_Witness ==
    /\ cpc = "loop"
    /\ Len(polled) >= 3
    /\ polled[Len(polled) - 1] = None
    /\ polled[Len(polled)] # None
    /\ ~Keeps(MakeRecord(polled[Len(polled)][1], Delivered(polled) - 1), args)
    /\ retries = 0
    /\ Len(records) = 1

\* The run of the scenario: page_size 5, max_retries 3, partition filter 1 and
\* the stream 0/1/0/1/0.
ScenarioRun ==
    /\ svc = [page_size |-> 5, max_retries |-> 3]
    /\ args = [NoFilter EXCEPT !.partition_filter = Some(1)]
    /\ PartitionsOf(polled) = <<0, 1, 0, 1, 0>>

\* C4: a page shorter than page_size is returned only when the max_retries
\* polls just before the return all returned nothing; in the scenario run the
\* page is exactly the two partition-1 records, after three empty polls.
C4_OnlySilenceEndsPage ==
    /\ (cpc = "returned" /\ Len(result[1]) < svc.page_size)
          => TailEmpty(polled, svc.max_retries)
    /\ (cpc = "returned" /\ ScenarioRun)
          => /\ result = Some(<<MakeRecord(MsgPlain1, 1), MakeRecord(MsgPlain1, 3)>>)
             /\ TailEmpty(polled, 3)

\* C4 witness: the scenario run has returned its two records; besides the
\* three closing empty polls, three more were spread between its records.
C4_Witness ==
    /\ cpc = "returned"
    /\ ScenarioRun
    /\ Len(polled) >= 11
    /\ Len(result[1]) = 2

\* C5: a polled record with a broker-reported error fails the call at once
\* with a KafkaException: it is the last poll of the call and no page is
\* returned, whatever was accumulated.
C5_ErrorFailsCall ==
    \A i \in ErrAt(polled) :
        /\ i = Len(polled)
        /\ cpc = "failed"
        /\ failure = "KafkaException"
        /\ result = None

\* C5 witness: the error arrived with two records accumulated.
C5_Witness ==
    /\ cpc = "failed"
    /\ ErrAt(polled) # {}
    /\ Len(records) = 2
    /\ result = None

\* C6 as stated: consume fails only if a poll returned an error record.
C6_Original == cpc = "failed" => ErrAt(polled) # {}

\* C6 amended: consume fails only if a poll returned an error record
\* (KafkaException) or the bridged poll call itself raised, which happens on a
\* closed consumer (RuntimeError); a call that has not failed raised nothing
\* and a returned call holds a page.
C6_FailsOnlyOnErrorOrRaise ==
    /\ cpc = "failed"
          => \/ ErrAt(polled) # {} /\ failure = "KafkaException"
             \/ ErrAt(polled) = {} /\ failure = "RuntimeError" /\ closed
    /\ cpc # "failed" => failure = "none"
    /\ cpc = "returned" => result # None

\* C6 witness: the poll raised on a closed consumer, no error record polled.
C6_Witness ==
    /\ cpc = "failed"
    /\ failure = "RuntimeError"
    /\ ErrAt(polled) = {}

----------------------------------------------------------------------------
(* Vocabulary of the snapshot claims *)

Range(f) == {f[i] : i \in DOMAIN f}

\* The ids of the partitions of a Topic of the snapshot.
PartitionIds(T) == {T.partitions[i].id : i \in 1..Len(T.partitions)}

\* The group has a committed offset on partition p of the topic.
HasOffset(g, name, p) == cluster.committed[g][<<name, p>>] # OFFSET_INVALID

\* The GroupPartition of group g for partition p of a topic, with the given
\* (low, high).
ExpectedGroupPartition(g, name, p, pair) ==
    [id |-> p, topic |-> name, offset |-> cluster.committed[g][<<name, p>>],
     group |-> g, low |-> pair[1], high |-> pair[2]]

\* G.partitions holds one GroupPartition per partition with a committed
\* offset, as WmOf(p) gives its watermarks, and nothing else.
GroupPartitionsAre(T, G, WmOf(_)) ==
    /\ \A p \in PartitionIds(T) :
         Cardinality({k \in 1..Len(G.partitions) : G.partitions[k].id = p})
            = IF HasOffset(G.id, T.name, p) THEN 1 ELSE 0
    /\ \A k \in 1..Len(G.partitions) :
         /\ G.partitions[k].id \in PartitionIds(T)
         /\ G.partitions[k]
              = ExpectedGroupPartition(G.id, T.name, G.partitions[k].id,
                                       WmOf(G.partitions[k].id))

----------------------------------------------------------------------------
(* Claims about TopicService.all *)

\* C7: in a returned snapshot, a group of the cluster is in T.groups exactly
\* when it has a committed offset (not OFFSET_INVALID) on some partition of T,
\* and it is there at most once.
C7_GroupAttachedIffCommitted ==
    aresult # None =>
        \A t \in 1..Len(aresult[1]) :
            LET T == aresult[1][t]
            IN  /\ \A i \in 1..Len(cluster.groups) :
                     LET g == cluster.groups[i].group_id
                     IN  (\E k \in 1..Len(T.groups) : T.groups[k].id = g)
                            <=> (\E p \in PartitionIds(T) : HasOffset(g, T.name, p))
                /\ \A k1, k2 \in 1..Len(T.groups) :
                     T.groups[k1].id = T.groups[k2].id => k1 = k2

\* C7 witness: of two topics, one has both groups attached and the other
\* only g2, g1 having committed nothing on it.
C7_Witness ==
    /\ aresult # None
    /\ Len(aresult[1]) = 2
    /\ \E t1, t2 \in 1..2 :
         /\ Len(aresult[1][t1].groups) = 2
         /\ Len(aresult[1][t2].groups) = 1
         /\ aresult[1][t2].groups[1].id = "g2"

\* C8 as stated: every attached group holds exactly one GroupPartition per
\* partition with a committed offset, carrying the partition's id, the
\* committed offset and the partition's low/high watermark.
C8_Original ==
    aresult # None =>
        \A t \in 1..Len(aresult[1]) :
            \A k \in 1..Len(aresult[1][t].groups) :
                LET T == aresult[1][t]
                    WmOf(p) == cluster.wm[<<T.name, p>>]
                IN  GroupPartitionsAre(T, T.groups[k], WmOf)

\* C8 amended: as stated, except that the low/high of a GroupPartition is
\* (0, 0) when the watermark lookup for that group partition raised.
C8_GroupPartitionsOrDefault ==
    aresult # None =>
        \A t \in 1..Len(aresult[1]) :
            \A k \in 1..Len(aresult[1][t].groups) :
                LET T == aresult[1][t]
                    G == T.groups[k]
                    WmOf(p) == IF <<"group", T.name, p, G.id>> \in degraded
                               THEN <<0, 0>> ELSE cluster.wm[<<T.name, p>>]
                IN  GroupPartitionsAre(T, G, WmOf)

\* C8 witness: the scenario. Topic O has watermarks (0,10) and (0,5), g1 has
\* committed 7 on partition 0 and nothing on partition 1: g1 is attached with
\* the single GroupPartition (partition 0, offset 7, low 0, high 10).
C8_Witness ==
    /\ aresult # None
    /\ \E t \in 1..Len(aresult[1]) :
         LET T == aresult[1][t]
         IN  /\ T.name = TopicO
             /\ cluster.wm[<<TopicO, 0>>] = <<0, 10>>
             /\ cluster.wm[<<TopicO, 1>>] = <<0, 5>>
             /\ cluster.committed["g1"][<<TopicO, 0>>] = 7
             /\ cluster.committed["g1"][<<TopicO, 1>>] = OFFSET_INVALID
             /\ \E k \in 1..Len(T.groups) :
                  /\ T.groups[k].id = "g1"
                  /\ T.groups[k].partitions =
                       <<[id |-> 0, topic |-> TopicO, offset |-> 7, group |-> "g1",
                          low |-> 0, high |-> 10]>>

\* The partitions of topic `name` in a member's full assignment.
AssignedOf(member, name) ==
    {tp[2] : tp \in {x \in Range(member.assignment) : x[1] = name}}

\* C9: every GroupMember attached to a group under topic T has a non-empty
\* assignment equal to the member's full assignment cut down to T's
\* partitions, and a member of the group with no partition of T is not
\* attached under T.
C9_MemberAssignmentTrimmed ==
    aresult # None =>
        \A t \in 1..Len(aresult[1]) :
            \A k \in 1..Len(aresult[1][t].groups) :
                LET T == aresult[1][t]
                    G == T.groups[k]
                    described == UNION {Range(cluster.groups[i].members) :
                                   i \in {j \in 1..Len(cluster.groups) :
                                            cluster.groups[j].group_id = G.id}}
                IN  /\ \A n \in 1..Len(G.members) :
                         /\ G.members[n].assignment # <<>>
                         /\ \E m \in described :
                              /\ m.member_id = G.members[n].id
                              /\ Range(G.members[n].assignment)
                                   = AssignedOf(m, T.name) \cap PartitionIds(T)
                    /\ \A m \in described :
                         AssignedOf(m, T.name) \cap PartitionIds(T) = {}
                            => \A n \in 1..Len(G.members) :
                                   G.members[n].id # m.member_id

\* C9 witness: g1 is attached under both topics, its member m1 under one of
\* them only; m2 of g2, assigned every partition, is attached there with the
\* two partitions of that topic out of its three.
C9_Witness ==
    /\ aresult # None
    /\ Len(aresult[1]) = 2
    /\ \E t1, t2 \in 1..2 :
         /\ \E k \in 1..Len(aresult[1][t1].groups) :
              /\ aresult[1][t1].groups[k].id = "g1"
              /\ Len(aresult[1][t1].groups[k].members) = 1
              /\ aresult[1][t1].groups[k].members[1].id = "m1"
         /\ \E k \in 1..Len(aresult[1][t1].groups) :
              /\ aresult[1][t1].groups[k].id = "g2"
              /\ aresult[1][t1].groups[k].members[1].assignment = <<0, 1>>
              /\ Len(cluster.groups[2].members[1].assignment) = 3
         /\ \E k \in 1..Len(aresult[1][t2].groups) :
              /\ aresult[1][t2].groups[k].id = "g1"
              /\ aresult[1][t2].groups[k].members = <<>>

WatermarksSeen(kind, name, p, g) ==
    IF <<kind, name, p, g>> \in degraded THEN <<0, 0>> ELSE cluster.wm[<<name, p>>]

\* C11: a watermark lookup that raises never fails the snapshot. While
\* nothing but watermark lookups has raised, all() has not failed; and the
\* snapshot it returns has every topic of the cluster with every partition,
\* where a Partition or GroupPartition whose lookup raised has low = high = 0
\* and every other one has the broker's watermarks.
C11_LookupFailureDegrades ==
    /\ raised \subseteq {"get_watermark_offsets"} => apc # "failed" /\ afailure = "none"
    /\ aresult # None =>
         /\ {aresult[1][t].name : t \in 1..Len(aresult[1])} 
              = {cluster.topics[i].topic : i \in 1..Len(cluster.topics)}
         /\ \A t \in 1..Len(aresult[1]) :
              LET T == aresult[1][t]
              IN  /\ PartitionIds(T) = 0..(NumPartitions(T.name) - 1)
                  /\ Len(T.partitions) = NumPartitions(T.name)
                  /\ \A i \in 1..Len(T.partitions) :
                       <<T.partitions[i].low, T.partitions[i].high>>
                         = WatermarksSeen("topic", T.name, T.partitions[i].id, "")
                  /\ \A k \in 1..Len(T.groups) :
                       \A j \in 1..Len(T.groups[k].partitions) :
                         LET gp == T.groups[k].partitions[j]
                         IN  <<gp.low, gp.high>>
                               = WatermarksSeen("group", T.name, gp.id, T.groups[k].id)

\* C11 witness: a returned snapshot in which the lookup for g1's partition 0
\* of topic O raised. That GroupPartition has (0, 0); the Partition itself
\* and g2's GroupPartition of it carry the broker's (4, 9).
C11_Witness ==
    /\ aresult # None
    /\ degraded = {<<"group", TopicO, 0, "g1">>}
    /\ \E t \in 1..Len(aresult[1]) :
         LET T == aresult[1][t]
         IN  /\ T.name = TopicO
             /\ \E i \in 1..Len(T.partitions) :
                  /\ T.partitions[i].id = 0
                  /\ T.partitions[i].low = 4
                  /\ T.partitions[i].high = 9
             /\ \E k \in 1..Len(T.groups) :
                  /\ T.groups[k].id = "g1"
                  /\ T.groups[k].partitions[1].id = 0
                  /\ T.groups[k].partitions[1].low = 0
                  /\ T.groups[k].partitions[1].high = 0
             /\ \E k \in 1..Len(T.groups) :
                  /\ T.groups[k].id = "g2"
                  /\ T.groups[k].partitions[1].id = 0
                  /\ T.groups[k].partitions[1].low = 4
                  /\ T.groups[k].partitions[1].high = 9

\* C12 as stated: a committed-offset lookup that raises for one (group,
\* topic) pair does not fail the snapshot: once committed() has raised, all()
\* has still not failed.
C12_CommittedFailureNonFatal ==
    "committed" \in raised => apc # "failed" /\ afailure = "none"

\* C13: once listing the topics or listing / describing the groups has
\* raised, all() has failed with that error and has returned no map, also
\* when every topic was already built: no partial map ever comes back.
C13_ListingFailureFailsAll ==
    raised \cap {"list_topics", "list_groups"} # {} =>
        /\ apc = "failed"
        /\ afailure = "KafkaException"
        /\ aresult = None

\* C13 witness: both topics were built with all their partitions, then the
\* group listing raised: all() has failed and nothing was returned.
C13_Witness ==
    /\ "list_groups" \in raised
    /\ Len(topics) = 2
    /\ \A t \in 1..2 : Len(topics[t].partitions) = NumPartitions(topics[t].name)
    /\ apc = "failed"
    /\ aresult = None

C15_EveryCallBridged ==
    \A c \in calls : c[2] = "bridge"

\* C16 as stated: when all() has returned or failed, every Consumer it
\* created has been closed.
C16_HandlesReleased ==
    apc \in {"returned", "failed"} =>
        \A h \in 1..Len(handles) : handles[h].closed

\* C17 as stated: a Consumer on which a watermark lookup was made was opened
\* with a fresh group id, not a group's own, and that lookup is the only
\* call ever made on it.
C17_WatermarkOnFreshHandle ==
    \A h \in 1..Len(handles) :
        "get_watermark_offsets" \in Range(handles[h].lookups) =>
            /\ handles[h].group_id = None
            /\ handles[h].lookups = <<"get_watermark_offsets">>

\* C19: the map all() returns holds the topics of the cluster, each name
\* once, in ascending order of the lower-cased name.
C19_TopicsSortedUnique ==
    aresult # None =>
        /\ {aresult[1][t].name : t \in 1..Len(aresult[1])}
              = {cluster.topics[i].topic : i \in 1..Len(cluster.topics)}
        /\ \A i, j \in 1..Len(aresult[1]) :
             i < j =>
                /\ aresult[1][i].name # aresult[1][j].name
                /\ ~StrLess(Lower(aresult[1][j].name), Lower(aresult[1][i].name))

\* C19 witness: the broker listed topic O before topic a; the returned map
\* has a first and O second.
C19_Witness ==
    /\ aresult # None
    /\ Len(cluster.topics) = 2
    /\ cluster.topics[1].topic = TopicO
    /\ cluster.topics[2].topic = TopicA
    /\ Len(aresult[1]) = 2
    /\ aresult[1][1].name = TopicA
    /\ aresult[1][2].name = TopicO

----------------------------------------------------------------------------
(* Further claims about ConsumerService.consume *)

\* C18: a consume call that has started eventually returns a page or fails
\* (the source delivers finitely many messages and then nothing). A returned
\* page is full or the retries were used up. With page_size <= 0 or
\* max_retries <= 0 no poll is ever issued and the call ends by returning the
\* empty page.
C18_ConsumeTerminates ==
    /\ (cpc = "loop") ~> (cpc \in {"returned", "failed"})
    /\ [](cpc = "returned" =>
            \/ Len(result[1]) >= svc.page_size
            \/ retries >= svc.max_retries)
    /\ []((svc.page_size <= 0 \/ svc.max_retries <= 0) =>
            /\ cpc \notin {"poll", "failed"}
            /\ polled = <<>>
            /\ cpc = "returned" => result = Some(<<>>))

\* C18 witness: a call that was delivered every message the source had, then
\* polled in vain until its retries ran out, and returned a short page.
C18_Witness ==
    /\ cpc = "returned"
    /\ live = 0
    /\ Delivered(polled) = MaxMsgs
    /\ svc.max_retries = MaxRetries
    /\ retries = svc.max_retries
    /\ Len(result[1]) < svc.page_size
    /\ Len(result[1]) > 0

\* The pages returned so far, oldest first: those of the ended calls and the
\* one of the current call once it has returned.
PagesSoFar == earlier.pages \o (IF result # None THEN <<result[1]>> ELSE <<>>)

\* C20: every call of consume starts with an empty accumulator and a zero
\* retry counter, however the call before it ended. Over the pages returned
\* so far, each page lists its records in the order they were polled, no
\* polled record is in two pages, and a record a failed call had accumulated
\* is in no page.
C20_CallsShareNothing ==
    /\ (cpc = "loop" /\ polled = <<>>) => (records = <<>> /\ retries = 0)
    /\ \A p \in 1..Len(PagesSoFar) :
         \A i, j \in 1..Len(PagesSoFar[p]) :
            i < j => PagesSoFar[p][i].offset < PagesSoFar[p][j].offset
    /\ \A p, q \in 1..Len(PagesSoFar) :
         p < q =>
            \A i \in 1..Len(PagesSoFar[p]) : \A j \in 1..Len(PagesSoFar[q]) :
                PagesSoFar[p][i].offset # PagesSoFar[q][j].offset
    /\ \A d \in 1..Len(earlier.dropped) :
         \A p \in 1..Len(PagesSoFar) : \A i \in 1..Len(PagesSoFar[p]) :
            PagesSoFar[p][i].offset # earlier.dropped[d].offset

\* C20 witness: the first call had accumulated a record when a broker error
\* failed it; the second call polled a further record and returned a page
\* with that record alone.
C20_Witness ==
    /\ earlier.ended = 1
    /\ Len(earlier.dropped) = 1
    /\ cpc = "returned"
    /\ Len(result[1]) = 1
    /\ result[1][1].offset > earlier.dropped[1].offset

\* The offsets of the records of an accumulator or page.
Offsets(recs) == {recs[i].offset : i \in 1..Len(recs)}

\* The records without their offsets.
WithoutOffsets(recs) == [i \in 1..Len(recs) |-> [recs[i] EXCEPT !.offset = 0]]

\* How many polls at the end of ps returned nothing.
EmptySuffix(ps) ==
    Cardinality({n \in 1..Len(ps) : \A i \in (Len(ps) - n + 1)..Len(ps) : ps[i] = None})

====
